---- MODULE Spec2Model ----
(***************************************************************************)
(* Tracking coordinator of the flight-tracking admin server (index.ts).    *)
(*                                                                         *)
(* The server is one single-threaded event loop.  Every `await` of a       *)
(* handler is a point where other handlers, timer callbacks and the        *)
(* startup recovery may run, so one action of this model is one resumption *)
(* of an async function: the awaited store or feed call completes and the  *)
(* code runs synchronously up to its next `await` (or its return).         *)
(* Two consecutive awaits are merged into one action only when neither the *)
(* awaited call nor the code between them reads or writes shared state     *)
(* (feed calls only).  A value fetched from the feed is an arbitrary value *)
(* that does not depend on the state, so it is drawn where it is used.     *)
(***************************************************************************)
EXTENDS Integers, Sequences, FiniteSets, TLC

VARIABLES
    flights,          \* the "flights" collection of the store
    pollingInterval,  \* the module-level timer handle (0 is null)
    timers,           \* every setInterval timer created by startPolling
    tasks,            \* the async functions in flight and their position
    resp,             \* the HTTP response returned by the last step, if any
    sent,             \* the event broadcast by the last step, if any
    completedSinceStart, \* history: the flights for which flight_completed was
                         \* broadcast after their last start_flight
    clientConnections,   \* the registry of subscriber connections (a Map, in
                         \* insertion order)
    sockets,             \* every WebSocket: its transport, its timers and callbacks
    wsSent,              \* the messages the last step sent to subscribers
    calc,                \* a call of one of the pure functions of utils.ts:
                         \* its arguments and, once it has returned, its result
    broadcastCount,      \* history: the count carried by the last client_added
                         \* or client_removed broadcast (0 before the first)
    cleanupInterval      \* the timer of the stale sweep is set

vars == <<flights, pollingInterval, timers, tasks, resp, sent, completedSinceStart,
          clientConnections, sockets, wsSent, calc, broadcastCount, cleanupInterval>>

----------------------------------------------------------------------------
(* Bounds *)

MaxTasks == 2       \* async functions in flight at the same time
MaxTimers == 2      \* timers that exist at the same time
MaxTs == 2          \* distinct timestamps the feed reports
MaxTrack == 2       \* longest stored track
MaxConns == 2       \* WebSocket connections that exist at the same time

(* Program constants *)

MAX_CONSECUTIVE_ERRORS == 5

TaskIds == DOMAIN tasks
TimerIds == DOMAIN timers
Timestamps == 1..MaxTs

\* A position sample (FlightTrackObject): its timestamp, and its other fields
\* (latitude, longitude, altitude, groundspeed, heading) as one value
SampleData == {"a", "b"}
Positions == [timestamp : Timestamps, data : SampleData]
NoPosition == [timestamp |-> 0, data |-> "-"]
\* the samples the feed reports while a flight is polled
FeedPositions == {p \in Positions : p.data = "a"}

\* the fa_flight_id values of the records a store can hold, in the order
\* find() returns them; "X" is an id no record has
StoreOrder == <<"J", "K">>
FlightIds == {"J", "K", "X"}
\* the records in the store
Stored == DOMAIN flights

----------------------------------------------------------------------------
(* Status standardization (src/utils.ts).  A status string is the sequence *)
(* of its characters; the empty sequence stands for "", null and undefined, *)
(* which the code treats alike (!status).                                  *)

LowerCase(c) ==
    CASE c = "A" -> "a" [] c = "E" -> "e" [] c = "G" -> "g" [] c = "O" -> "o"
      [] c = "R" -> "r" [] c = "S" -> "s" [] c = "T" -> "t" [] c = "L" -> "l"
      [] c = "D" -> "d" [] c = "C" -> "c" [] c = "I" -> "i" [] c = "N" -> "n"
      [] c = "B" -> "b" [] c = "F" -> "f" [] c = "H" -> "h" [] c = "J" -> "j"
      [] c = "K" -> "k" [] c = "M" -> "m" [] c = "P" -> "p" [] c = "Q" -> "q"
      [] c = "U" -> "u" [] c = "V" -> "v" [] c = "W" -> "w" [] c = "X" -> "x"
      [] c = "Y" -> "y" [] c = "Z" -> "z"
      [] OTHER -> c

toLowerCase(s) == [i \in 1..Len(s) |-> LowerCase(s[i])]

RECURSIVE trimStart(_)
trimStart(s) == IF s # <<>> /\ Head(s) = " " THEN trimStart(Tail(s)) ELSE s

RECURSIVE trimEnd(_)
trimEnd(s) ==
    IF s # <<>> /\ s[Len(s)] = " " THEN trimEnd(SubSeq(s, 1, Len(s) - 1)) ELSE s

trim(s) == trimEnd(trimStart(s))

\* status.split("/")[0]
RECURSIVE splitFirst(_)
splitFirst(s) ==
    IF s = <<>> \/ Head(s) = "/" THEN <<>>
    ELSE <<Head(s)>> \o splitFirst(Tail(s))

statusMap ==
    { << <<"a","r","r","i","v","e","d">>, "completed" >>,
      << <<"l","a","n","d","e","d">>, "completed" >>,
      << <<"c","o","m","p","l","e","t","e","d">>, "completed" >>,
      << <<"e","n"," ","r","o","u","t","e">>, "active" >>,
      << <<"i","n","-","a","i","r">>, "active" >>,
      << <<"i","n"," ","a","i","r">>, "active" >>,
      << <<"d","e","p","a","r","t","e","d">>, "active" >>,
      << <<"t","a","k","e","o","f","f">>, "active" >>,
      << <<"t","a","x","i">>, "taxiing" >>,
      << <<"t","a","x","i","i","n","g">>, "taxiing" >>,
      << <<"s","c","h","e","d","u","l","e","d">>, "scheduled" >>,
      << <<"n","o","t"," ","d","e","p","a","r","t","e","d">>, "scheduled" >> }

\* statusMap is an object literal: a key it does not define is looked up in
\* Object.prototype.  Of the names defined there, these two are in lower case;
\* the first gives the function Object, the second Object.prototype itself
inheritedKeys ==
    { << <<"c","o","n","s","t","r","u","c","t","o","r">>, "function Object" >>,
      << <<"_","_","p","r","o","t","o","_","_">>, "[object Object]" >> }

\* statusMap[primaryStatus]; "undefined" when neither the object nor its
\* prototype has the key
lookup(primaryStatus) ==
    LET own == {e \in statusMap : e[1] = primaryStatus}
        inherited == {e \in inheritedKeys : e[1] = primaryStatus}
    IN  IF own # {} THEN (CHOOSE e \in own : TRUE)[2]
        ELSE IF inherited # {} THEN (CHOOSE e \in inherited : TRUE)[2]
        ELSE "undefined"

standardizeFlightStatus(status) ==
    IF status = <<>> THEN "unknown"
    ELSE LET first == toLowerCase(trim(splitFirst(status)))
             primaryStatus == IF first # <<>> THEN first
                              ELSE toLowerCase(trim(status))
             standardizedStatus == lookup(primaryStatus)
         IN  IF standardizedStatus # "undefined" THEN standardizedStatus ELSE "unknown"

\* Status strings the feed reports in this model
StatusEnRoute == <<"E","n"," ","R","o","u","t","e"," ","/"," ","O","n"," ","T","i","m","e">>
StatusArrived == <<"A","r","r","i","v","e","d"," ","/"," ","G","a","t","e">>
StatusAbsent == <<>>
StatusTaxiing == <<"T","a","x","i","i","n","g"," ","/"," ","L","e","f","t"," ","G","a","t","e">>
FeedStatuses == {StatusEnRoute, StatusArrived, StatusAbsent}

\* let finalStatus = "completed" in stopPolling
DefaultFinalStatus == <<"c","o","m","p","l","e","t","e","d">>

----------------------------------------------------------------------------
(* The calculations of src/utils.ts.  Numbers are IEEE doubles in the code; *)
(* the model keeps them exact: a distance is a whole number of units of     *)
(* R * pi / 180 km (the points of the model lie on the equator, where the   *)
(* haversine distance is R times the difference of the longitudes in        *)
(* radians), a progress is a whole number of tenths of a percent, and NaN   *)
(* is a value of its own.                                                   *)

\* A time as the feed writes it (an ISO 8601 string in UTC, here a day of
\* January 2024 and a time of day); NoTime stands for null and for the empty
\* string
NoTime == [day |-> 0, hour |-> 0, minute |-> 0, second |-> 0, ms |-> 0]

\* A point (latitude, longitude in whole degrees)
Point(latitude, longitude) == [latitude |-> latitude, longitude |-> longitude]

Abs(x) == IF x < 0 THEN 0 - x ELSE x
Min(x, y) == IF x < y THEN x ELSE y
Max(x, y) == IF x < y THEN y ELSE x

\* Math.round(n / d) for d > 0: the nearest integer, a half goes up
mathRound(n, d) == (2 * n + d) \div (2 * d)

\* calculateDistance: 0 when one of the two points is (0, 0)
calculateDistance(lat1, lon1, lat2, lon2) ==
    IF lat1 = 0 /\ lon1 = 0 THEN 0
    ELSE IF lat2 = 0 /\ lon2 = 0 THEN 0
    ELSE Abs(lon2 - lon1)

Number(num) == [nan |-> FALSE, num |-> num]
NaN == [nan |-> TRUE, num |-> 0]

\* Number(Math.min(100, Math.max(0, (distanceTraveled / totalDistance) * 100)).toFixed(1)):
\* x / 0 is Infinity for x > 0 and 0 / 0 is NaN, which Math.max and Math.min
\* hand on
calculateProgressFromPositions(flightTrack, lastPosition, origin, destination) ==
    IF Len(flightTrack) < 2 THEN Number(0)
    ELSE LET totalDistance ==
                 calculateDistance(origin.latitude, origin.longitude,
                                   destination.latitude, destination.longitude)
             distanceTraveled ==
                 calculateDistance(origin.latitude, origin.longitude,
                                   lastPosition.latitude, lastPosition.longitude)
         IN  IF totalDistance = 0
             THEN IF distanceTraveled = 0 THEN NaN ELSE Number(1000)
             ELSE Number(Min(1000, Max(0, mathRound(distanceTraveled * 1000, totalDistance))))

\* new Date(iso).getTime(), in ms from the start of January 2024
getTime(iso) ==
    ((((iso.day - 1) * 24 + iso.hour) * 60 + iso.minute) * 60 + iso.second) * 1000 + iso.ms

\* calculateDepartureDelay with Math.floor for Math.round
calculateDepartureDelay_Floor(actualOff, scheduledOff) ==
    IF actualOff = NoTime \/ scheduledOff = NoTime THEN 0
    ELSE (getTime(actualOff) - getTime(scheduledOff)) \div 1000

calculateDepartureDelay(actualOff, scheduledOff) ==
    IF actualOff = NoTime \/ scheduledOff = NoTime THEN 0
    ELSE mathRound(getTime(actualOff) - getTime(scheduledOff), 1000)

calculateArrivalDelay(actualOn, scheduledOn) ==
    IF actualOn = NoTime \/ scheduledOn = NoTime THEN 0
    ELSE mathRound(getTime(actualOn) - getTime(scheduledOn), 1000)

----------------------------------------------------------------------------
(* Start-time merge of the stored track with the fetched positions.  A     *)
(* position sample is looked up by its timestamp.                          *)

RECURSIVE insertSorted(_, _)
insertSorted(x, s) ==
    IF s = <<>> THEN <<x>>
    ELSE IF x.timestamp < Head(s).timestamp THEN <<x>> \o s
    ELSE <<Head(s)>> \o insertSorted(x, Tail(s))

\* Array.prototype.sort by timestamp: stable, ascending
RECURSIVE sortByTimestamp(_)
sortByTimestamp(s) ==
    IF s = <<>> THEN <<>>
    ELSE insertSorted(s[Len(s)], sortByTimestamp(SubSeq(s, 1, Len(s) - 1)))

\* mergeTrack with the roles swapped: the fetched positions are kept and the
\* stored samples are added where their timestamp is new
mergeTrack_FetchedWins(existingTrack, positions) ==
    IF Len(existingTrack) > 0
    THEN LET fetchedTimestamps == {positions[i].timestamp : i \in 1..Len(positions)}
             kept == SelectSeq(existingTrack, LAMBDA p : p.timestamp \notin fetchedTimestamps)
         IN  sortByTimestamp(positions \o kept)
    ELSE positions

mergeTrack(existingTrack, positions) ==
    IF Len(existingTrack) > 0
    THEN LET existingTimestamps ==
                 {existingTrack[i].timestamp : i \in 1..Len(existingTrack)}
             fresh == SelectSeq(positions, LAMBDA p : p.timestamp \notin existingTimestamps)
         IN  sortByTimestamp(existingTrack \o fresh)
    ELSE positions

\* what getFlightTrack may return (also [] when no history is fetched)
PositionSeqs == {<<>>} \cup {<<a>> : a \in FeedPositions}

----------------------------------------------------------------------------
(* State *)

NoResp == [status |-> 0, body |-> "-"]
NoEvent == [event |-> "none", faFlightId |-> "-", is_tracking |-> FALSE, cause |-> "-"]

IdleTask ==
    [pc |-> "idle", kind |-> "none", faFlightId |-> "-", timer |-> 0, caller |-> "-",
     mergedTrackData |-> <<>>, trackedFlights |-> {}, currentPosition |-> NoPosition,
     actual_off |-> FALSE]

FreeTimer == [armed |-> FALSE, faFlightId |-> "-", consecutiveErrors |-> 0]

NewFlight == [is_tracking |-> FALSE, standardized_status |-> "scheduled", flightTrack |-> <<>>]

\* A WebSocket.  readyState: "none" before it is opened, then "open", then
\* "closed" (CLOSING or CLOSED); closeEvent: the close handler has still to run;
\* setupTimeout, stabilityTimer: the two setTimeout of the open handler are
\* pending; snapshot: getInitialState() has still to resolve; initialState:
\* history, the initial_state message was sent to it
Conns == 1..MaxConns
NoSocket ==
    [readyState |-> "none", closeEvent |-> FALSE, setupTimeout |-> FALSE,
     stabilityTimer |-> FALSE, snapshot |-> FALSE, initialState |-> FALSE]

\* no function of utils.ts is being called
NoCalc ==
    [fn |-> "none", done |-> FALSE, status |-> <<>>, flightTrack |-> <<>>,
     lastPosition |-> Point(0, 0), origin |-> Point(0, 0), destination |-> Point(0, 0),
     actual |-> NoTime, scheduled |-> NoTime, out |-> "-", num |-> 0, nan |-> FALSE]

\* no subscriber has connected yet
WsInit ==
    /\ clientConnections = <<>>
    /\ sockets = [c \in Conns |-> NoSocket]
    /\ wsSent = {}
    /\ broadcastCount = 0
    /\ cleanupInterval = TRUE

\* every specification but SpecUtils: no call of utils.ts is looked at
InitOthers == WsInit /\ calc = NoCalc

\* restoreTrackingState is called once at module load and awaits its find()
RestoreTask == [IdleTask EXCEPT !.pc = "r_find", !.kind = "restore"]

TrackedFlights == {f \in Stored : flights[f].is_tracking}

\* A timer that is cleared and that no callback in flight belongs to is garbage
Collect(tm, tk) ==
    [i \in DOMAIN tm |->
        IF tm[i].armed \/ \E t \in DOMAIN tk : tk[t].pc # "idle" /\ tk[t].timer = i
        THEN tm[i] ELSE FreeTimer]

FreeTaskIds == {t \in TaskIds : tasks[t].pc = "idle"}
FreeTimerIds(tm) == {i \in DOMAIN tm : tm[i] = FreeTimer}
Lowest(S) == CHOOSE x \in S : \A y \in S : x <= y

\* clearPolling without the clearInterval
clearPolling_None(tm) == tm

\* if (pollingInterval) { clearInterval(pollingInterval); pollingInterval = null; }
clearPolling(tm) ==
    IF pollingInterval # 0
    THEN [tm EXCEPT ![pollingInterval].armed = FALSE]
    ELSE tm

\* The slots of `tasks` are interchangeable, so the tasks are kept in one order:
\* by position in the code, then by flight, then by timer
PcOrder ==
    <<"idle", "fetch", "sp_find", "sp_update", "t_check", "t_fetch", "t_exists",
      "t_push", "stop_find", "stop_update", "r_find", "r_reset", "r_info", "r_complete",
      "d_delete">>

Index(seq, x) == CHOOSE k \in 1..Len(seq) : seq[k] = x

Key(task) ==
    LET f == IF task.faFlightId = "J" THEN 1 ELSE IF task.faFlightId = "K" THEN 2 ELSE 0
    IN  (Index(PcOrder, task.pc) * 4 + f) * 8 + task.timer

RECURSIVE insertTask(_, _)
insertTask(x, s) ==
    IF s = <<>> THEN <<x>>
    ELSE IF Key(x) > Key(Head(s)) THEN <<x>> \o s
    ELSE <<Head(s)>> \o insertTask(x, Tail(s))

RECURSIVE Ordered(_)
Ordered(tk) ==
    IF tk = <<>> THEN <<>>
    ELSE insertTask(tk[Len(tk)], Ordered(SubSeq(tk, 1, Len(tk) - 1)))

\* The process has just started on a store that holds the records of `ids`,
\* at most one of them left tracked by the previous run
InitWith(ids, nTasks, nTimers) ==
    /\ flights \in {fl \in [ids -> {NewFlight, [NewFlight EXCEPT !.is_tracking = TRUE]}] :
                        Cardinality({f \in ids : fl[f].is_tracking}) <= 1}
    /\ pollingInterval = 0
    /\ timers = [i \in 1..nTimers |-> FreeTimer]
    /\ tasks = Ordered([t \in 1..nTasks |-> IF t = 1 THEN RestoreTask ELSE IdleTask])
    /\ resp = NoResp
    /\ sent = NoEvent
    /\ completedSinceStart = {}
    /\ InitOthers

----------------------------------------------------------------------------
(* Helpers shared by the actions *)

Response(status, body) == [status |-> status, body |-> body]

\* An event as broadcast.  is_tracking: the flag of the record a start_flight
\* carries (FALSE without a record); cause: the call of stopPolling a
\* flight_completed comes from, which the code logs before calling it
Event(event, faFlightId, is_tracking, cause) ==
    [event |-> event, faFlightId |-> faFlightId, is_tracking |-> is_tracking, cause |-> cause]

\* One step of the tracking coordinator: the new store, timer handle, timers
\* and tasks, the response returned and the event broadcast by the step.  The
\* specifications that take these steps run with no subscriber connected, so
\* the broadcast has no recipient and the registry stays as it is
Step(fl, pi, tm, tk, r, e) ==
    /\ UNCHANGED <<clientConnections, sockets, wsSent, calc, broadcastCount, cleanupInterval>>
    /\ flights' = fl
    /\ pollingInterval' = pi
    /\ timers' = Collect(tm, tk)
    /\ tasks' = Ordered(tk)
    /\ resp' = r
    /\ sent' = e
    /\ completedSinceStart' =
          IF e.event = "flight_completed" THEN completedSinceStart \cup {e.faFlightId}
          ELSE IF e.event = "start_flight" THEN completedSinceStart \ {e.faFlightId}
          ELSE completedSinceStart

\* the task returns (or its exception is caught and logged) without touching anything
Return(t, r) ==
    Step(flights, pollingInterval, timers, [tasks EXCEPT ![t] = IdleTask], r, NoEvent)

\* the task goes on to its next await
Goto(t, pc) ==
    Step(flights, pollingInterval, timers, [tasks EXCEPT ![t].pc = pc], NoResp, NoEvent)

\* the first statements of startPolling: clear the timer handle, then await findOne
enterStartPolling(t) ==
    Step(flights, 0, clearPolling(timers), [tasks EXCEPT ![t].pc = "sp_find"],
         NoResp, NoEvent)

\* flightFound with the "if (!flight)" test lost: every id is taken as found
flightFound_Always(faFlightId) == faFlightId \in FlightIds

\* db.collection("flights").findOne({ fa_flight_id })
flightFound(faFlightId) == faFlightId \in Stored

\* isTracking with the flag of the record found never read as set
isTracking_Never(faFlightId) == faFlightId \in Stored /\ FALSE

\* flight.is_tracking of the record found
isTracking(faFlightId) == faFlightId \in Stored /\ flights[faFlightId].is_tracking

\* setFields with is_tracking left out of the $set
setFields_KeepFlag(faFlightId, is_tracking, standardized_status, flightTrack) ==
    IF faFlightId \in Stored
    THEN [flights EXCEPT ![faFlightId] =
            [is_tracking |-> flights[faFlightId].is_tracking,
             standardized_status |-> standardized_status,
             flightTrack |-> flightTrack]]
    ELSE flights

\* updateOne / findOneAndUpdate with $set on the record of faFlightId, if there is one
setFields(faFlightId, is_tracking, standardized_status, flightTrack) ==
    IF faFlightId \in Stored
    THEN [flights EXCEPT ![faFlightId] =
            [is_tracking |-> is_tracking,
             standardized_status |-> standardized_status,
             flightTrack |-> flightTrack]]
    ELSE flights

NotFound == Response(404, "Flight not found")
AlreadyTracked == Response(200, "Flight is already being tracked")
Started == Response(200, "Tracking started successfully")
FailedToStart == Response(500, "Failed to start tracking")
Stopped == Response(200, "Tracking stopped successfully")

\* the catch blocks of handleStartTracking and of restoreTrackingState
startFailed(t) ==
    Return(t, IF tasks[t].kind = "start" THEN FailedToStart ELSE NoResp)

----------------------------------------------------------------------------
(* POST /api/tracking/start *)

\* the request arrives and the first findOne completes
handleStartTracking(faFlightId, dbOk) ==
    IF ~dbOk
    THEN Step(flights, pollingInterval, timers, tasks, FailedToStart, NoEvent)
    ELSE IF ~flightFound(faFlightId)
    THEN Step(flights, pollingInterval, timers, tasks, NotFound, NoEvent)
    ELSE IF isTracking(faFlightId)
    THEN Step(flights, pollingInterval, timers, tasks, AlreadyTracked, NoEvent)
    ELSE /\ FreeTaskIds # {}
         /\ Step(flights, pollingInterval, timers,
                 [tasks EXCEPT ![Lowest(FreeTaskIds)] =
                     [IdleTask EXCEPT !.pc = "fetch", !.kind = "start",
                                      !.faFlightId = faFlightId]],
                 NoResp, NoEvent)

\* getFlightInfo/getFlightPosition (and getFlightTrack) complete; startPolling is
\* called and runs up to its first findOne
startFetch(t, feedOk) ==
    /\ tasks[t].pc = "fetch"
    /\ IF feedOk THEN enterStartPolling(t) ELSE startFailed(t)

\* startPolling: findOne of the existing record completes, the tracks are merged
startPollingFind(t, dbOk, positions) ==
    /\ tasks[t].pc = "sp_find"
    /\ IF dbOk
       THEN LET f == tasks[t].faFlightId
                existingTrack == IF f \in Stored THEN flights[f].flightTrack ELSE <<>>
                merged == mergeTrack(existingTrack, positions)
            IN  /\ Len(merged) <= MaxTrack
                /\ Step(flights, pollingInterval, timers,
                        [tasks EXCEPT ![t].pc = "sp_update", ![t].mergedTrackData = merged],
                        NoResp, NoEvent)
       ELSE startFailed(t)

\* startPolling: findOneAndUpdate completes, start_flight is broadcast and the
\* interval is created.  hasLast: initialPositionData.last_position is there
\* (reading .latitude of a missing one throws after the update)
startPollingUpdate(t, dbOk, status, hasLast) ==
    /\ tasks[t].pc = "sp_update"
    /\ IF ~dbOk THEN startFailed(t)
       ELSE LET f == tasks[t].faFlightId
                fl == setFields(f, TRUE,
                                IF status # <<>> THEN standardizeFlightStatus(status)
                                ELSE "unknown",
                                tasks[t].mergedTrackData)
                done == [tasks EXCEPT ![t] = IdleTask]
                free == FreeTimerIds(Collect(timers, done))
            IN  IF ~hasLast
                THEN Step(fl, pollingInterval, timers, done,
                          IF tasks[t].kind = "start" THEN FailedToStart ELSE NoResp,
                          NoEvent)
                ELSE /\ free # {}
                     /\ Step(fl, Lowest(free),
                             [timers EXCEPT ![Lowest(free)] =
                                 [armed |-> TRUE, faFlightId |-> f, consecutiveErrors |-> 0]],
                             done,
                             IF tasks[t].kind = "start" THEN Started ELSE NoResp,
                             Event("start_flight", f, f \in Stored /\ fl[f].is_tracking, "-"))

----------------------------------------------------------------------------
(* POST /api/tracking/stop: stopPolling(fa_flight_id, true), which returns *)
(* right after clearing the timer handle                                   *)

handleStopTracking(faFlightId) ==
    Step(flights, 0, clearPolling(timers), tasks, Stopped, NoEvent)

----------------------------------------------------------------------------
(* The setInterval callback of startPolling.  faFlightId and the counter   *)
(* consecutiveErrors are those of the startPolling call that created the   *)
(* timer; setInterval does not wait for a callback to settle, so callbacks *)
(* of one timer can overlap.                                               *)

\* lastPosition.altitude === -1
GroundSentinel == -1

\* What getFlightPosition gives a callback: it throws, or the response has no
\* last_position, or it has one, of which the callback reads altitude and
\* groundspeed to detect the landing and stores `position`; actual_off,
\* actual_on: the response carries a liftoff timestamp, an arrival timestamp
PositionData(kind, position, actual_off, actual_on, altitude, groundspeed) ==
    [kind |-> kind, position |-> position, actual_off |-> actual_off,
     actual_on |-> actual_on, altitude |-> altitude, groundspeed |-> groundspeed]

FeedThrows == PositionData("throws", NoPosition, FALSE, FALSE, 0, 0)
FeedEmpty == PositionData("empty", NoPosition, FALSE, FALSE, 0, 0)
FeedLanded == PositionData("sample", NoPosition, FALSE, TRUE, 1, 1)
FeedOnGround == PositionData("sample", NoPosition, FALSE, FALSE, GroundSentinel, 0)
FeedSample(p) == PositionData("sample", p, FALSE, FALSE, 1, 1)
FeedAirborne(p) == PositionData("sample", p, TRUE, FALSE, 1, 1)
FeedBelowSentinel(p) == PositionData("sample", p, FALSE, FALSE, GroundSentinel - 1, 0)

\* landed with the arrival timestamp as the only indicator
landed_ArrivalOnly(position) == position.actual_on

\* newPositionData.actual_on ||
\*   (lastPosition.altitude === -1 && lastPosition.groundspeed === 0)
landed(position) ==
    \/ position.actual_on
    \/ position.altitude = GroundSentinel /\ position.groundspeed = 0

\* the interval elapses: the callback starts and awaits its first findOne
tick(i) ==
    /\ timers[i].armed
    /\ FreeTaskIds # {}
    /\ Step(flights, pollingInterval, timers,
            [tasks EXCEPT ![Lowest(FreeTaskIds)] =
                [IdleTask EXCEPT !.pc = "t_check", !.kind = "tick",
                                 !.faFlightId = timers[i].faFlightId, !.timer = i]],
            NoResp, NoEvent)

\* the first statements of stopPolling(faFlightId) in the step that calls it:
\* clear the timer handle, then await findOne
enterStopPolling(t, tm, caller) ==
    Step(flights, 0, clearPolling(tm),
         [tasks EXCEPT ![t].pc = "stop_find", ![t].caller = caller],
         NoResp, NoEvent)

\* consecutiveErrors++ (the code compares the counter with the threshold only,
\* so it stops growing there)
increment(n) == IF n < MAX_CONSECUTIVE_ERRORS THEN n + 1 ELSE n

\* consecutiveErrors++; if (consecutiveErrors >= MAX_CONSECUTIVE_ERRORS) await
\* stopPolling(faFlightId): in the empty-response branch and in the catch block
countError(t) ==
    LET i == tasks[t].timer
        n == increment(timers[i].consecutiveErrors)
        tm == [timers EXCEPT ![i].consecutiveErrors = n]
    IN  IF n >= MAX_CONSECUTIVE_ERRORS
        THEN enterStopPolling(t, tm, "errors")
        ELSE Step(flights, pollingInterval, tm, [tasks EXCEPT ![t] = IdleTask],
                  NoResp, NoEvent)

\* findOne({ fa_flight_id, is_tracking: true }) completes
tickCheck(t, dbOk) ==
    /\ tasks[t].pc = "t_check"
    /\ IF ~dbOk THEN countError(t)
       ELSE IF isTracking(tasks[t].faFlightId) THEN Goto(t, "t_fetch")
       ELSE enterStopPolling(t, timers, "not_tracked")

\* getFlightPosition completes
tickFetch(t, position) ==
    /\ tasks[t].pc = "t_fetch"
    /\ IF position.kind \in {"throws", "empty"} THEN countError(t)
       ELSE IF landed(position) THEN enterStopPolling(t, timers, "landed")
       ELSE Step(flights, pollingInterval,
                 [timers EXCEPT ![tasks[t].timer].consecutiveErrors = 0],
                 [tasks EXCEPT ![t].pc = "t_exists", ![t].currentPosition = position.position,
                               ![t].actual_off = position.actual_off],
                 NoResp, NoEvent)

\* positionExists with a query that matches no record
positionExists_Never(faFlightId, timestamp) == faFlightId \in Stored /\ FALSE

\* findOne({ fa_flight_id, "flightTrack.timestamp": timestamp })
positionExists(faFlightId, timestamp) ==
    /\ faFlightId \in Stored
    /\ \E k \in 1..Len(flights[faFlightId].flightTrack) :
          flights[faFlightId].flightTrack[k].timestamp = timestamp

tickExists(t, dbOk) ==
    /\ tasks[t].pc = "t_exists"
    /\ IF ~dbOk THEN countError(t)
       ELSE IF positionExists(tasks[t].faFlightId, tasks[t].currentPosition.timestamp)
       THEN Return(t, NoResp)
       ELSE Goto(t, "t_push")

\* updateOne with $push completes, position_update is broadcast
tickPush(t, dbOk) ==
    /\ tasks[t].pc = "t_push"
    /\ IF ~dbOk THEN countError(t)
       ELSE LET f == tasks[t].faFlightId
            IN  /\ f \in Stored => Len(flights[f].flightTrack) < MaxTrack
                /\ Step(IF f \in Stored
                        THEN [flights EXCEPT ![f].flightTrack = Append(@, tasks[t].currentPosition)]
                        ELSE flights,
                        pollingInterval, timers, [tasks EXCEPT ![t] = IdleTask],
                        NoResp, Event("position_update", f, FALSE, "-"))

----------------------------------------------------------------------------
(* stopPolling(faFlightId) as called by the timer callback *)

\* findOne completes (and then the final getFlightInfo/getFlightPosition,
\* which touch nothing)
stopPollingFind(t, dbOk) ==
    /\ tasks[t].pc = "stop_find"
    /\ IF dbOk /\ flightFound(tasks[t].faFlightId)
       THEN Goto(t, "stop_update")
       ELSE Return(t, NoResp)

\* finalStatusOf without the "completed" default
finalStatusOf_NoDefault(feedOk, apiStatus) == apiStatus

\* finalStatus = apiStatus || finalStatus, where the fetch may have thrown
finalStatusOf(feedOk, apiStatus) ==
    IF feedOk /\ apiStatus # <<>> THEN apiStatus ELSE DefaultFinalStatus

\* updateOne with $set completes, flight_completed is broadcast
stopPollingUpdate(t, dbOk, feedOk, apiStatus) ==
    /\ tasks[t].pc = "stop_update"
    /\ IF ~dbOk THEN Return(t, NoResp)
       ELSE LET f == tasks[t].faFlightId
                track == IF f \in Stored THEN flights[f].flightTrack ELSE <<>>
            IN  Step(setFields(f, FALSE,
                               standardizeFlightStatus(finalStatusOf(feedOk, apiStatus)),
                               track),
                     pollingInterval, timers, [tasks EXCEPT ![t] = IdleTask],
                     NoResp, Event("flight_completed", f, FALSE, tasks[t].caller))

----------------------------------------------------------------------------
(* DELETE /api/flights: deleteFlight of handlers.ts *)

Deleted == Response(200, "Flight deleted")
CannotDelete == Response(400, "Cannot delete flight that is currently being tracked")
FailedToDelete == Response(500, "Failed to delete flight")

\* the request arrives and findOne({ fa_flight_id: id }) completes
deleteFlight(id, dbOk) ==
    IF ~dbOk
    THEN Step(flights, pollingInterval, timers, tasks, FailedToDelete, NoEvent)
    ELSE IF ~flightFound(id)
    THEN Step(flights, pollingInterval, timers, tasks, NotFound, NoEvent)
    ELSE IF flights[id].is_tracking
    THEN Step(flights, pollingInterval, timers, tasks, CannotDelete, NoEvent)
    ELSE /\ FreeTaskIds # {}
         /\ Step(flights, pollingInterval, timers,
                 [tasks EXCEPT ![Lowest(FreeTaskIds)] =
                     [IdleTask EXCEPT !.pc = "d_delete", !.kind = "delete",
                                      !.faFlightId = id]],
                 NoResp, NoEvent)

\* deleteOne({ fa_flight_id: id }) completes; deletedCount is 0 when the
\* record is gone already
deleteOne(t, dbOk) ==
    /\ tasks[t].pc = "d_delete"
    /\ IF ~dbOk \/ tasks[t].faFlightId \notin Stored
       THEN Return(t, FailedToDelete)
       ELSE Step([f \in Stored \ {tasks[t].faFlightId} |-> flights[f]],
                 pollingInterval, timers, [tasks EXCEPT ![t] = IdleTask],
                 Deleted, NoEvent)

----------------------------------------------------------------------------
(* restoreTrackingState, run once when the process starts *)

\* timestamp of the last track sample, 0 when the track is empty
lastPosition(f) ==
    IF Len(flights[f].flightTrack) > 0
    THEN flights[f].flightTrack[Len(flights[f].flightTrack)].timestamp ELSE 0

\* trackedFlights.sort(...)[0]: most recent last sample first, no sample last;
\* the sort is stable, so among equals the first one found wins
mostRecentFlight(tracked) ==
    LET best == {f \in tracked : \A g \in tracked : lastPosition(g) <= lastPosition(f)}
        k == Lowest({j \in 1..Len(StoreOrder) : StoreOrder[j] \in best})
    IN  StoreOrder[k]

\* find({ is_tracking: true }) completes
restoreFind(t, dbOk) ==
    /\ tasks[t].pc = "r_find"
    /\ IF ~dbOk \/ TrackedFlights = {} THEN Return(t, NoResp)
       ELSE IF Cardinality(TrackedFlights) > 1
       THEN Step(flights, pollingInterval, timers,
                 [tasks EXCEPT ![t].pc = "r_reset",
                               ![t].faFlightId = mostRecentFlight(TrackedFlights),
                               ![t].trackedFlights = TrackedFlights],
                 NoResp, NoEvent)
       ELSE Step(flights, pollingInterval, timers,
                 [tasks EXCEPT ![t].pc = "r_info",
                               ![t].faFlightId = CHOOSE f \in TrackedFlights : TRUE],
                 NoResp, NoEvent)

\* updateMany completes: is_tracking = false on the flights found, but the selected one
restoreReset(t, dbOk) ==
    /\ tasks[t].pc = "r_reset"
    /\ IF ~dbOk THEN Return(t, NoResp)
       ELSE Step([f \in Stored |->
                     IF f # tasks[t].faFlightId /\ f \in tasks[t].trackedFlights
                     THEN [flights[f] EXCEPT !.is_tracking = FALSE]
                     ELSE flights[f]],
                 pollingInterval, timers,
                 [tasks EXCEPT ![t].pc = "r_info", ![t].trackedFlights = {}],
                 NoResp, NoEvent)

\* getFlightInfo completes (a throw is only logged); unless it reports a completed
\* flight, getFlightInfo/getFlightPosition (and getFlightTrack) follow and
\* startPolling is called
restoreFetch(t, infoOk, apiStatus, feedOk) ==
    /\ tasks[t].pc = "r_info"
    /\ IF infoOk /\ apiStatus # <<>> /\ standardizeFlightStatus(apiStatus) = "completed"
       THEN Goto(t, "r_complete")
       ELSE IF feedOk THEN enterStartPolling(t)
       ELSE Return(t, NoResp)

\* updateOne completes: the flight is stored as completed and not tracked
restoreComplete(t, dbOk) ==
    /\ tasks[t].pc = "r_complete"
    /\ IF ~dbOk THEN Return(t, NoResp)
       ELSE LET f == tasks[t].faFlightId
                track == IF f \in Stored THEN flights[f].flightTrack ELSE <<>>
            IN  Step(setFields(f, FALSE, "completed", track),
                     pollingInterval, timers, [tasks EXCEPT ![t] = IdleTask],
                     NoResp, NoEvent)

\* The process ends and is started again: the store is all that is kept, the
\* module state is initialised and restoreTrackingState is called
processRestart ==
    /\ flights' = flights
    /\ pollingInterval' = 0
    /\ timers' = [i \in TimerIds |-> FreeTimer]
    /\ tasks' = Ordered([t \in TaskIds |-> IF t = 1 THEN RestoreTask ELSE IdleTask])
    /\ resp' = NoResp
    /\ sent' = NoEvent
    /\ completedSinceStart' = completedSinceStart
    /\ clientConnections' = <<>>
    /\ sockets' = [c \in Conns |-> NoSocket]
    /\ wsSent' = {}
    /\ calc' = calc
    /\ broadcastCount' = 0
    /\ cleanupInterval' = TRUE

----------------------------------------------------------------------------
(* Subscriber connections: the websocket handlers and broadcastUpdate.     *)
(* A handler or timer callback runs to its end in one step; the only await *)
(* is getInitialState() in the open handler's stability callback.          *)

trackingVars == <<flights, pollingInterval, timers, tasks, resp, sent, completedSinceStart>>

Message(to, event, data) == [to |-> to, event |-> event, data |-> data]

\* clientConnections.get(ws): the place of the entry of ws, 0 when it has none
entryOf(reg, c) ==
    IF \E k \in 1..Len(reg) : reg[k].ws = c
    THEN CHOOSE k \in 1..Len(reg) : reg[k].ws = c
    ELSE 0

registered(c) == entryOf(clientConnections, c) # 0

\* clientConnections.delete(ws)
deleteEntry(reg, c) == SelectSeq(reg, LAMBDA e : e.ws # c)

\* ws.close()
closeSocket(sk, c) ==
    IF sk[c].readyState = "open"
    THEN [sk EXCEPT ![c].readyState = "closed", ![c].closeEvent = TRUE]
    ELSE sk

\* a socket that is closed, that no timer or callback refers to any more and
\* that has no entry is gone
Recycle(sk, reg) ==
    [c \in DOMAIN sk |->
        IF /\ sk[c].readyState = "closed"
           /\ ~sk[c].closeEvent /\ ~sk[c].setupTimeout
           /\ ~sk[c].stabilityTimer /\ ~sk[c].snapshot
           /\ entryOf(reg, c) = 0
        THEN NoSocket ELSE sk[c]]

\* One step of the subscriber side: the new registry and sockets and the
\* messages sent; the tracking coordinator is not involved
WsStep(reg, sk, msgs) ==
    /\ clientConnections' = reg
    /\ sockets' = Recycle(sk, reg)
    /\ wsSent' = msgs
    /\ UNCHANGED <<trackingVars, calc, broadcastCount, cleanupInterval>>

\* eligible with the readyState test lost
eligible_IgnoreTransport(sk, e) == e.connected /\ e.setupComplete

\* connection.connected && connection.setupComplete && ws.readyState === WebSocket.OPEN
eligible(sk, e) == e.connected /\ e.setupComplete /\ sk[e.ws].readyState = "open"

\* connection.setupComplete && (!connection.connected || ws.readyState !== WebSocket.OPEN)
inactive(sk, e) == e.setupComplete /\ (~e.connected \/ sk[e.ws].readyState # "open")

\* the first loop of broadcastUpdate: ws.send throws for the sockets of
\* `failing`, and the catch block marks their entry
afterSends(reg, sk, failing) ==
    [k \in 1..Len(reg) |->
        IF eligible(sk, reg[k]) /\ reg[k].ws \in failing
        THEN [reg[k] EXCEPT !.connected = FALSE]
        ELSE reg[k]]

\* recipients without the try block inside the loop: the first send that
\* throws ends the loop
recipients_UntilFailure(reg, sk, failing) ==
    {reg[k].ws : k \in {k \in 1..Len(reg) :
        /\ eligible(sk, reg[k]) /\ reg[k].ws \notin failing
        /\ \A j \in 1..(k - 1) : ~(eligible(sk, reg[j]) /\ reg[j].ws \in failing)}}

\* the sockets the message is sent to
recipients(reg, sk, failing) ==
    {reg[k].ws : k \in {k \in 1..Len(reg) :
        eligible(sk, reg[k]) /\ reg[k].ws \notin failing}}

\* cleanupCount after the first loop
cleanupCount(reg, sk, failing) ==
    Cardinality({k \in 1..Len(reg) :
        IF eligible(sk, reg[k])
        THEN reg[k].ws \in failing /\ reg[k].setupComplete
        ELSE inactive(sk, reg[k])})

\* the second loop: delete inactive entries in Map order until cleanupCount
\* of them are deleted
RECURSIVE sweep(_, _, _)
sweep(reg, sk, n) ==
    IF n = 0 \/ reg = <<>> THEN reg
    ELSE IF inactive(sk, Head(reg)) THEN sweep(Tail(reg), sk, n - 1)
    ELSE <<Head(reg)>> \o sweep(Tail(reg), sk, n)

\* broadcastUpdate(event, data) on the registry reg
broadcastUpdate(reg, sk, event, data, failing) ==
    /\ clientConnections' =
          sweep(afterSends(reg, sk, failing), sk, cleanupCount(reg, sk, failing))
    /\ sockets' = Recycle(sk, clientConnections')
    /\ wsSent' = {Message(c, event, data) : c \in recipients(reg, sk, failing)}
    /\ broadcastCount' =
          IF event \in {"client_added", "client_removed"} THEN data ELSE broadcastCount
    /\ UNCHANGED <<trackingVars, calc, cleanupInterval>>

\* websocket.open: both timers are set
wsOpen(c) ==
    /\ sockets[c].readyState = "none"
    /\ WsStep(clientConnections,
              [sockets EXCEPT ![c] = [NoSocket EXCEPT !.readyState = "open",
                                                       !.setupTimeout = TRUE,
                                                       !.stabilityTimer = TRUE]],
              {})

\* the transport closes: the peer leaves or the network drops
wsDrop(c) ==
    /\ sockets[c].readyState = "open"
    /\ WsStep(clientConnections, closeSocket(sockets, c), {})

\* the setupTimeout callback (CONNECTION_SETUP_TIMEOUT).  The model does not
\* rely on the two delays: either callback may run first
wsSetupTimeout(c) ==
    /\ sockets[c].setupTimeout
    /\ LET k == entryOf(clientConnections, c)
           sk == [sockets EXCEPT ![c].setupTimeout = FALSE]
       IN  WsStep(clientConnections,
                  IF k # 0 /\ clientConnections[k].setupComplete
                  THEN sk ELSE closeSocket(sk, c),
                  {})

\* connectionStable with the test lost: the connection is taken as open
connectionStable_Always(c) == c \in Conns

\* connectionStable with the test never passing
connectionStable_Never(c) == c \notin Conns

\* ws.readyState === WebSocket.OPEN in the stability callback
connectionStable(c) == sockets[c].readyState = "open"

\* the stability callback (1 s after open): clear the setup timeout; if the
\* connection is open, register it, call getInitialState() and broadcast
\* client_added
wsStabilized(c, failing) ==
    /\ sockets[c].stabilityTimer
    /\ LET sk == [sockets EXCEPT ![c].stabilityTimer = FALSE, ![c].setupTimeout = FALSE]
           reg == Append(deleteEntry(clientConnections, c),
                         [ws |-> c, connected |-> TRUE, setupComplete |-> TRUE])
       IN  IF connectionStable(c)
           THEN broadcastUpdate(reg, [sk EXCEPT ![c].snapshot = TRUE],
                                "client_added", Len(reg), failing)
           ELSE WsStep(clientConnections, sk, {})

\* getInitialState() resolves (or rejects, which nothing handles); a closed
\* transport carries no message
wsInitialState(c, dbOk) ==
    /\ sockets[c].snapshot
    /\ LET k == entryOf(clientConnections, c)
           sk == [sockets EXCEPT ![c].snapshot = FALSE]
       IN  IF /\ dbOk /\ k # 0
              /\ clientConnections[k].connected /\ clientConnections[k].setupComplete
              /\ sockets[c].readyState = "open"
           THEN WsStep(clientConnections, [sk EXCEPT ![c].initialState = TRUE],
                       {Message(c, "initial_state", Len(clientConnections))})
           ELSE WsStep(clientConnections, sk, {})

\* websocket.close
wsClose(c, failing) ==
    /\ sockets[c].closeEvent
    /\ LET k == entryOf(clientConnections, c)
           sk == [sockets EXCEPT ![c].closeEvent = FALSE]
           reg == deleteEntry(clientConnections, c)
       IN  IF k = 0 THEN WsStep(clientConnections, sk, {})
           ELSE IF clientConnections[k].setupComplete
           THEN broadcastUpdate(reg, sk, "client_removed", Len(reg), failing)
           ELSE WsStep(reg, sk, {})

\* cleanupStaleConnections, every CLEANUP_INTERVAL
cleanupStaleConnections ==
    LET stale(e) == e.setupComplete /\ sockets[e.ws].readyState # "open"
    IN  /\ cleanupInterval
        /\ clientConnections' = SelectSeq(clientConnections, LAMBDA e : ~stale(e))
        /\ sockets' = Recycle(sockets, clientConnections')
        /\ wsSent' = {}
        /\ UNCHANGED <<trackingVars, calc, broadcastCount, cleanupInterval>>

\* a broadcast made by the tracking coordinator
TrackingEvents == {"start_flight", "position_update", "flight_completed"}

trackingBroadcast(event, failing) ==
    /\ event \in TrackingEvents
    /\ broadcastUpdate(clientConnections, sockets, event, 0, failing)

----------------------------------------------------------------------------
(* SIGTERM / SIGINT: cleanupServerResources.  It awaits nothing, so that it *)
(* is one step and isShuttingDown is false again when it has run; the       *)
(* process is not ended by it.                                              *)

\* ws.close() on every connection of the registry
closeAll(sk, reg) ==
    [c \in DOMAIN sk |-> IF entryOf(reg, c) # 0 THEN closeSocket(sk, c)[c] ELSE sk[c]]

\* clientConnections.clear()
clear(reg) == <<>>

cleanupServerResources ==
    /\ cleanupInterval' = FALSE
    /\ pollingInterval' = 0
    /\ timers' = Collect(clearPolling(timers), tasks)
    /\ clientConnections' = clear(clientConnections)
    /\ sockets' = Recycle(closeAll(sockets, clientConnections), clientConnections')
    /\ wsSent' = {}
    /\ resp' = NoResp
    /\ sent' = NoEvent
    /\ UNCHANGED <<flights, tasks, completedSinceStart, calc, broadcastCount>>

----------------------------------------------------------------------------
(* Calls of the functions of utils.ts: the arguments are in calc when the   *)
(* call is made, the result is there when it has returned.                  *)

Returned(c) ==
    /\ calc' = [c EXCEPT !.done = TRUE]
    /\ UNCHANGED <<trackingVars, clientConnections, sockets, wsSent, broadcastCount,
                   cleanupInterval>>

callStandardizeFlightStatus ==
    /\ calc.fn = "standardizeFlightStatus" /\ ~calc.done
    /\ Returned([calc EXCEPT !.out = standardizeFlightStatus(calc.status)])

callCalculateProgressFromPositions ==
    /\ calc.fn = "calculateProgressFromPositions" /\ ~calc.done
    /\ LET progress == calculateProgressFromPositions(calc.flightTrack, calc.lastPosition,
                                                      calc.origin, calc.destination)
       IN  Returned([calc EXCEPT !.num = progress.num, !.nan = progress.nan])

callCalculateDepartureDelay ==
    /\ calc.fn = "calculateDepartureDelay" /\ ~calc.done
    /\ Returned([calc EXCEPT !.num = calculateDepartureDelay(calc.actual, calc.scheduled)])

callCalculateArrivalDelay ==
    /\ calc.fn = "calculateArrivalDelay" /\ ~calc.done
    /\ Returned([calc EXCEPT !.num = calculateArrivalDelay(calc.actual, calc.scheduled)])

----------------------------------------------------------------------------
(* Specifications.  The actions are the same in all of them; what differs  *)
(* is the store the process starts on, how many requests and callbacks     *)
(* overlap, and what the store and the feed may answer.                    *)

Samples == {FeedSample(p) : p \in FeedPositions}
BelowSentinel == {FeedBelowSentinel(p) : p \in FeedPositions}
AnyPosition ==
    Samples \cup BelowSentinel \cup {FeedLanded, FeedOnGround, FeedEmpty, FeedThrows}

\* db: what a store call may do (TRUE: it answers, FALSE: it throws); feed:
\* likewise for the feed calls of start, stop and recovery; positions: what
\* getFlightPosition may give a callback; histories: what getFlightTrack may
\* give; statuses: the status strings getFlightInfo may report
Actions(db, feed, positions, histories, statuses) ==
    \/ \E f \in FlightIds, dbOk \in db : handleStartTracking(f, dbOk)
    \/ \E t \in TaskIds, feedOk \in feed : startFetch(t, feedOk)
    \/ \E t \in TaskIds, dbOk \in db, history \in histories :
          startPollingFind(t, dbOk, history)
    \/ \E t \in TaskIds, dbOk \in db, status \in statuses, hasLast \in BOOLEAN :
          startPollingUpdate(t, dbOk, status, hasLast)
    \/ \E f \in FlightIds : handleStopTracking(f)
    \/ \E i \in TimerIds : tick(i)
    \/ \E t \in TaskIds, dbOk \in db : tickCheck(t, dbOk)
    \/ \E t \in TaskIds, position \in positions : tickFetch(t, position)
    \/ \E t \in TaskIds, dbOk \in db : tickExists(t, dbOk)
    \/ \E t \in TaskIds, dbOk \in db : tickPush(t, dbOk)
    \/ \E t \in TaskIds, dbOk \in db : stopPollingFind(t, dbOk)
    \/ \E t \in TaskIds, dbOk \in db, feedOk \in feed, apiStatus \in statuses :
          stopPollingUpdate(t, dbOk, feedOk, apiStatus)
    \/ \E t \in TaskIds, dbOk \in db : restoreFind(t, dbOk)
    \/ \E t \in TaskIds, infoOk \in feed, apiStatus \in statuses, feedOk \in feed :
          restoreFetch(t, infoOk, apiStatus, feedOk)
    \/ \E t \in TaskIds, dbOk \in db : restoreComplete(t, dbOk)
    \/ processRestart

\* Spec: two journeys, one request or callback at a time; every store call and
\* every feed call may fail
SeqTasks == 1
SeqTimers == 1

Init == InitWith({"J", "K"}, SeqTasks, SeqTimers)

Next ==
    \/ Actions(BOOLEAN, BOOLEAN, AnyPosition, PositionSeqs, FeedStatuses)
    \/ \E t \in TaskIds, dbOk \in BOOLEAN : restoreReset(t, dbOk)

Spec == Init /\ [][Next]_vars

\* SpecLoop: one journey and its polling loop, overlapping requests and callbacks;
\* every store call and every feed call may fail
LoopTimers == 1

InitLoop == InitWith({"J"}, MaxTasks, LoopTimers)

NextLoop == Actions(BOOLEAN, BOOLEAN, AnyPosition, PositionSeqs, FeedStatuses)

SpecLoop == InitLoop /\ [][NextLoop]_vars

\* SpecTimers: one journey, overlapping requests and callbacks, room for a second
\* timer; the store answers every call and the feed has a position for every callback
InitTimers == InitWith({"J"}, MaxTasks, MaxTimers)

NextTimers == Actions({TRUE}, BOOLEAN, Samples \cup {FeedLanded}, {<<>>}, FeedStatuses)

SpecTimers == InitTimers /\ [][NextTimers]_vars

\* SpecMerge: one journey with any stored track that is sorted and has no
\* timestamp twice, one request or callback at a time, a store and a feed that
\* answer; getFlightTrack may return any sequence of samples
MergeSeqs ==
    {<<>>} \cup UNION {[1..n -> Positions] : n \in 1..MaxTrack}

InitMerge ==
    /\ flights \in {fl \in [{"J"} -> [is_tracking : BOOLEAN,
                                      standardized_status : {"scheduled"},
                                      flightTrack : MergeSeqs]] :
                        \A k \in 1..(Len(fl["J"].flightTrack) - 1) :
                            fl["J"].flightTrack[k].timestamp
                                < fl["J"].flightTrack[k + 1].timestamp}
    /\ pollingInterval = 0
    /\ timers = [i \in 1..SeqTimers |-> FreeTimer]
    /\ tasks = Ordered([t \in 1..SeqTasks |-> IF t = 1 THEN RestoreTask ELSE IdleTask])
    /\ resp = NoResp
    /\ sent = NoEvent
    /\ completedSinceStart = {}
    /\ InitOthers

NextMerge == Actions({TRUE}, {TRUE}, Samples \cup {FeedLanded}, MergeSeqs, FeedStatuses)

SpecMerge == InitMerge /\ [][NextMerge]_vars

\* SpecTaxi: one journey, one request or callback at a time, a store and a
\* feed that answer; the feed may report a journey as taxiing, and a position
\* response may carry a liftoff timestamp
Airborne == {FeedAirborne(p) : p \in FeedPositions}

InitTaxi == InitWith({"J"}, SeqTasks, SeqTimers)

NextTaxi ==
    Actions({TRUE}, {TRUE}, Samples \cup Airborne \cup {FeedLanded}, {<<>>},
            {StatusTaxiing, StatusEnRoute, StatusArrived})

SpecTaxi == InitTaxi /\ [][NextTaxi]_vars

\* SpecRestore: the process starts on a store where the previous run has left
\* both journeys tracked, each with no sample or one; the recovery overlaps with
\* start requests (no timer fires before it has finished); the store and the
\* feed answer every call
RestoreTracks == {<<>>} \cup {<<p>> : p \in FeedPositions}

InitRestore ==
    /\ flights \in [{"J", "K"} -> [is_tracking : {TRUE},
                                   standardized_status : {"scheduled"},
                                   flightTrack : RestoreTracks]]
    /\ pollingInterval = 0
    /\ timers = [i \in 1..LoopTimers |-> FreeTimer]
    /\ tasks = Ordered([t \in 1..MaxTasks |-> IF t = 1 THEN RestoreTask ELSE IdleTask])
    /\ resp = NoResp
    /\ sent = NoEvent
    /\ completedSinceStart = {}
    /\ InitOthers

NextRestore ==
    \/ \E f \in FlightIds : handleStartTracking(f, TRUE)
    \/ \E t \in TaskIds : startFetch(t, TRUE)
    \/ \E t \in TaskIds : startPollingFind(t, TRUE, <<>>)
    \/ \E t \in TaskIds, status \in FeedStatuses : startPollingUpdate(t, TRUE, status, TRUE)
    \/ \E t \in TaskIds : restoreFind(t, TRUE)
    \/ \E t \in TaskIds : restoreReset(t, TRUE)
    \/ \E t \in TaskIds, apiStatus \in FeedStatuses : restoreFetch(t, TRUE, apiStatus, TRUE)
    \/ \E t \in TaskIds : restoreComplete(t, TRUE)

SpecRestore == InitRestore /\ [][NextRestore]_vars

\* SpecSockets: the subscriber side alone; the tracking coordinator is idle
\* and its broadcasts come at any time; any send may throw
InitSockets ==
    /\ flights = [f \in {"J"} |-> NewFlight]
    /\ pollingInterval = 0
    /\ timers = [i \in 1..SeqTimers |-> FreeTimer]
    /\ tasks = [t \in 1..SeqTasks |-> IdleTask]
    /\ resp = NoResp
    /\ sent = NoEvent
    /\ completedSinceStart = {}
    /\ InitOthers

NextSockets ==
    \/ \E c \in Conns : wsOpen(c)
    \/ \E c \in Conns : wsDrop(c)
    \/ \E c \in Conns : wsSetupTimeout(c)
    \/ \E c \in Conns, failing \in SUBSET Conns : wsStabilized(c, failing)
    \/ \E c \in Conns, dbOk \in BOOLEAN : wsInitialState(c, dbOk)
    \/ \E c \in Conns, failing \in SUBSET Conns : wsClose(c, failing)
    \/ cleanupStaleConnections
    \/ \E event \in TrackingEvents, failing \in SUBSET Conns :
          trackingBroadcast(event, failing)

SpecSockets == InitSockets /\ [][NextSockets]_vars

\* SpecSocketsFair: SpecSockets where a timer that is set fires
SpecSocketsFair ==
    /\ SpecSockets
    /\ \A c \in Conns : WF_vars(\E failing \in SUBSET Conns : wsStabilized(c, failing))
    /\ \A c \in Conns : WF_vars(wsSetupTimeout(c))

\* SpecDelete: two journeys; delete requests, start requests and the recovery
\* overlap; the feed answers, the store may fail a delete
InitDelete == InitWith({"J", "K"}, MaxTasks, LoopTimers)

NextDelete ==
    \/ \E f \in FlightIds : handleStartTracking(f, TRUE)
    \/ \E t \in TaskIds : startFetch(t, TRUE)
    \/ \E t \in TaskIds : startPollingFind(t, TRUE, <<>>)
    \/ \E t \in TaskIds : startPollingUpdate(t, TRUE, StatusEnRoute, TRUE)
    \/ \E id \in FlightIds, dbOk \in BOOLEAN : deleteFlight(id, dbOk)
    \/ \E t \in TaskIds, dbOk \in BOOLEAN : deleteOne(t, dbOk)
    \/ \E t \in TaskIds : restoreFind(t, TRUE)
    \/ \E t \in TaskIds, apiStatus \in {StatusEnRoute, StatusArrived} :
          restoreFetch(t, TRUE, apiStatus, TRUE)
    \/ \E t \in TaskIds : restoreComplete(t, TRUE)

SpecDelete == InitDelete /\ [][NextDelete]_vars

\* SpecCross: two journeys, neither tracked when the process starts; start
\* requests and timer callbacks overlap, two timers can exist; the store and
\* the feed answer, and the feed reports one sample or the landing
InitCross ==
    /\ flights = [f \in {"J", "K"} |-> NewFlight]
    /\ pollingInterval = 0
    /\ timers = [i \in 1..MaxTimers |-> FreeTimer]
    /\ tasks = [t \in 1..MaxTasks |-> IdleTask]
    /\ resp = NoResp
    /\ sent = NoEvent
    /\ completedSinceStart = {}
    /\ InitOthers

CrossPositions == {FeedLanded, FeedSample([timestamp |-> 1, data |-> "a"])}

NextCross ==
    \/ \E f \in {"J", "K"} : handleStartTracking(f, TRUE)
    \/ \E t \in TaskIds : startFetch(t, TRUE)
    \/ \E t \in TaskIds : startPollingFind(t, TRUE, <<>>)
    \/ \E t \in TaskIds : startPollingUpdate(t, TRUE, StatusEnRoute, TRUE)
    \/ \E i \in TimerIds : tick(i)
    \/ \E t \in TaskIds : tickCheck(t, TRUE)
    \/ \E t \in TaskIds, position \in CrossPositions : tickFetch(t, position)
    \/ \E t \in TaskIds : tickExists(t, TRUE)
    \/ \E t \in TaskIds : tickPush(t, TRUE)
    \/ \E t \in TaskIds : stopPollingFind(t, TRUE)
    \/ \E t \in TaskIds : stopPollingUpdate(t, TRUE, TRUE, StatusArrived)

SpecCross == InitCross /\ [][NextCross]_vars

\* SpecShutdown: one journey, not tracked when the process first starts, one
\* request or callback at a time, subscribers that connect and leave, the
\* shutdown signal at any time, and the process ended and started again after
\* it; the store answers every call, a feed call of the recovery may throw and
\* a position response may lack last_position
InitShutdown ==
    /\ flights = [f \in {"J"} |-> NewFlight]
    /\ pollingInterval = 0
    /\ timers = [i \in 1..SeqTimers |-> FreeTimer]
    /\ tasks = Ordered([t \in 1..SeqTasks |-> IF t = 1 THEN RestoreTask ELSE IdleTask])
    /\ resp = NoResp
    /\ sent = NoEvent
    /\ completedSinceStart = {}
    /\ InitOthers

ShutdownPositions == {FeedLanded, FeedSample([timestamp |-> 1, data |-> "a"])}

NextShutdown ==
    \/ \E f \in FlightIds : handleStartTracking(f, TRUE)
    \/ \E t \in TaskIds : startFetch(t, TRUE)
    \/ \E t \in TaskIds : startPollingFind(t, TRUE, <<>>)
    \/ \E t \in TaskIds, hasLast \in BOOLEAN :
          startPollingUpdate(t, TRUE, StatusEnRoute, hasLast)
    \/ \E i \in TimerIds : tick(i)
    \/ \E t \in TaskIds : tickCheck(t, TRUE)
    \/ \E t \in TaskIds, position \in ShutdownPositions : tickFetch(t, position)
    \/ \E t \in TaskIds : tickExists(t, TRUE)
    \/ \E t \in TaskIds : tickPush(t, TRUE)
    \/ \E t \in TaskIds : stopPollingFind(t, TRUE)
    \/ \E t \in TaskIds : stopPollingUpdate(t, TRUE, TRUE, StatusArrived)
    \/ \E t \in TaskIds : restoreFind(t, TRUE)
    \/ \E t \in TaskIds, apiStatus \in {StatusEnRoute, StatusArrived}, feedOk \in BOOLEAN :
          restoreFetch(t, feedOk, apiStatus, feedOk)
    \/ \E t \in TaskIds : restoreComplete(t, TRUE)
    \/ \E c \in Conns : wsOpen(c)
    \/ \E c \in Conns : wsDrop(c)
    \/ \E c \in Conns : wsStabilized(c, {})
    \/ \E c \in Conns : wsClose(c, {})
    \/ cleanupStaleConnections
    \/ cleanupServerResources
    \/ ~cleanupInterval /\ processRestart

SpecShutdown == InitShutdown /\ [][NextShutdown]_vars

\* SpecUtils: one call of a function of utils.ts on arguments drawn from the
\* sets below; nothing else happens
MaxDeg == 2         \* longitudes of the points, in degrees either side of 0

StatusWords ==
    {e[1] : e \in statusMap \cup inheritedKeys}
        \cup {<<"d","e","l","a","y","e","d">>, <<"T","a","x","i">>,
              <<"L","A","N","D","E","D">>, <<" ">>, <<"/">>}

\* a word as it is, with a second part, in blanks, and after a separator
StatusInputs ==
    {StatusAbsent, StatusEnRoute, StatusArrived, StatusTaxiing}
        \cup StatusWords
        \cup {w \o <<" ","/"," ","O","n"," ","T","i","m","e">> : w \in StatusWords}
        \cup {<<" ">> \o w \o <<" ">> : w \in StatusWords}
        \cup {<<"/">> \o w : w \in StatusWords}

Points == {Point(0, x) : x \in (0 - MaxDeg)..MaxDeg}

CalcTracks ==
    {<<>>, <<[timestamp |-> 1, data |-> "a"]>>,
     <<[timestamp |-> 1, data |-> "a"], [timestamp |-> 2, data |-> "a"]>>}

Times ==
    {NoTime} \cup [day : {1, 2}, hour : {10}, minute : {0, 15}, second : {0, 1},
                   ms : {0, 499, 500}]

InitUtils ==
    /\ flights = [f \in {"J"} |-> NewFlight]
    /\ pollingInterval = 0
    /\ timers = [i \in 1..SeqTimers |-> FreeTimer]
    /\ tasks = [t \in 1..SeqTasks |-> IdleTask]
    /\ resp = NoResp
    /\ sent = NoEvent
    /\ completedSinceStart = {}
    /\ WsInit
    /\ \/ \E status \in StatusInputs :
             calc = [NoCalc EXCEPT !.fn = "standardizeFlightStatus", !.status = status]
       \/ \E track \in CalcTracks, last \in Points, o \in Points, d \in Points :
             calc = [NoCalc EXCEPT !.fn = "calculateProgressFromPositions",
                                   !.flightTrack = track, !.lastPosition = last,
                                   !.origin = o, !.destination = d]
       \/ \E fn \in {"calculateDepartureDelay", "calculateArrivalDelay"},
               actual \in Times, scheduled \in Times :
             calc = [NoCalc EXCEPT !.fn = fn, !.actual = actual, !.scheduled = scheduled]

NextUtils ==
    \/ callStandardizeFlightStatus
    \/ callCalculateProgressFromPositions
    \/ callCalculateDepartureDelay
    \/ callCalculateArrivalDelay

SpecUtils == InitUtils /\ [][NextUtils]_vars

TypeOK ==
    /\ pollingInterval \in {0} \cup TimerIds
    /\ pollingInterval # 0 => timers[pollingInterval].armed
    /\ \A f \in Stored : Len(flights[f].flightTrack) <= MaxTrack
    /\ \A t \in TaskIds : tasks[t].timer # 0 => tasks[t].kind = "tick"

----------------------------------------------------------------------------
(* Properties *)

ArmedTimers == {i \in TimerIds : timers[i].armed}

\* the timer whose handle the module holds is one armed for faFlightId
polling(faFlightId) ==
    /\ pollingInterval # 0
    /\ timers[pollingInterval].armed
    /\ timers[pollingInterval].faFlightId = faFlightId

\* a timer armed for faFlightId in the state after the step
armedFor(faFlightId) ==
    /\ pollingInterval' # 0
    /\ timers'[pollingInterval'].armed
    /\ timers'[pollingInterval'].faFlightId = faFlightId

\* C1: in every reachable state at most one journey record has
\* is_tracking = true
C1_AtMostOneTracked == Cardinality(TrackedFlights) <= 1

\* C2: a start request for J that arrives while a different journey K has
\* is_tracking = true is rejected there and then: the step returns an error
\* response, starts no work for J, leaves every record and the timers as they
\* are and broadcasts nothing
C2_StartRejectedWhileOtherTracked ==
    [][\A f \in Stored :
          ( /\ \E k \in TrackedFlights : k # f /\ polling(k)
            /\ ~flights[f].is_tracking
            /\ handleStartTracking(f, TRUE) )
          => /\ resp'.status >= 400
             /\ UNCHANGED <<flights, pollingInterval, timers, tasks>>
             /\ sent' = NoEvent]_vars

\* C3: at most one polling timer is armed at any time
C3_AtMostOneTimerArmed == Cardinality(ArmedTimers) <= 1

\* C4: a stop request for the tracked journey J that returns success has
\* cancelled the timer, written is_tracking = false for J and broadcast
\* flight_completed for J
C4_StopCompletes ==
    [][\A f \in Stored :
          ( /\ flights[f].is_tracking
            /\ polling(f)
            /\ handleStopTracking(f)
            /\ resp' = Stopped )
          => /\ ArmedTimers' = {}
             /\ ~flights'[f].is_tracking
             /\ sent'.event = "flight_completed"
             /\ sent'.faFlightId = f]_vars

\* C5: a stop request for a journey that is not tracked returns an error
\* response and leaves the timers, the store and the subscribers untouched
C5_StopRejectedWhenNotTracked ==
    [][\A f \in FlightIds :
          ( /\ ~(f \in Stored /\ flights[f].is_tracking)
            /\ \E k \in TrackedFlights : polling(k)
            /\ handleStopTracking(f) )
          => /\ resp'.status >= 400
             /\ UNCHANGED <<flights, pollingInterval, timers>>
             /\ sent' = NoEvent]_vars

\* C6: a start request for an id that has no record returns NotFound (404)
\* and changes nothing: no record created or modified, no timer armed or
\* cancelled, no work started, no event broadcast
C6_StartUnknown ==
    [][\A f \in FlightIds \ Stored :
          handleStartTracking(f, TRUE)
          => /\ resp' = NotFound
             /\ UNCHANGED <<flights, pollingInterval, timers, tasks>>
             /\ sent' = NoEvent]_vars

\* a start request for an unknown id has just been answered, while a timer is armed
C6_Witness ==
    /\ resp = NotFound
    /\ ArmedTimers # {}
    /\ TrackedFlights # {}

\* C7: a start request for a journey that has is_tracking = true gets the
\* non-error "already being tracked" answer and changes nothing: track and
\* status are not rewritten, the armed timer is neither cancelled nor
\* replaced, no work is started, no event is broadcast
C7_StartAlreadyStarted ==
    [][\A f \in Stored :
          ( /\ flights[f].is_tracking
            /\ handleStartTracking(f, TRUE) )
          => /\ resp' = AlreadyTracked
             /\ resp'.status < 400
             /\ UNCHANGED <<flights, pollingInterval, timers, tasks>>
             /\ sent' = NoEvent]_vars

\* a start request for the tracked journey has just been answered, its timer armed
C7_Witness ==
    /\ resp = AlreadyTracked
    /\ pollingInterval # 0
    /\ timers[pollingInterval].faFlightId \in TrackedFlights

C9_ThresholdStopOnce ==
    [][\A t \in TaskIds :
          ( /\ tasks[t].caller = "errors"
            /\ \E feedOk \in BOOLEAN, apiStatus \in FeedStatuses :
                  stopPollingUpdate(t, TRUE, feedOk, apiStatus) )
          => /\ ArmedTimers' = {}
             /\ ~flights'[tasks[t].faFlightId].is_tracking
             /\ sent'.event = "flight_completed"
             /\ sent'.faFlightId = tasks[t].faFlightId
             /\ tasks[t].faFlightId \notin completedSinceStart]_vars

\* C10 as claimed: the write of a stop path entered because the counter reached
\* the threshold stores standardized_status = completed, whatever the final
\* fetch gave
C10_ThresholdStopStoresCompleted ==
    [][\A t \in TaskIds :
          ( /\ tasks[t].caller = "errors"
            /\ \E feedOk \in BOOLEAN, apiStatus \in FeedStatuses :
                  stopPollingUpdate(t, TRUE, feedOk, apiStatus) )
          => flights'[tasks[t].faFlightId].standardized_status = "completed"]_vars

\* C10 amended: that write stores the standardized form of the status the
\* final fetch reports, and completed when the fetch fails or reports no status
C10_ThresholdStopStoresFinalStatus ==
    [][\A t \in TaskIds, feedOk \in BOOLEAN, apiStatus \in FeedStatuses :
          ( /\ tasks[t].caller = "errors"
            /\ stopPollingUpdate(t, TRUE, feedOk, apiStatus) )
          => flights'[tasks[t].faFlightId].standardized_status =
                IF feedOk /\ apiStatus # StatusAbsent
                THEN standardizeFlightStatus(apiStatus)
                ELSE "completed"]_vars

\* a threshold stop has just written a status other than completed
C10_Witness ==
    /\ sent.event = "flight_completed"
    /\ sent.cause = "errors"
    /\ flights[sent.faFlightId].standardized_status # "completed"
    /\ ~flights[sent.faFlightId].is_tracking

\* the timestamps of a track are strictly ascending: sorted, none twice
sortedUnique(track) ==
    \A k \in 1..(Len(track) - 1) : track[k].timestamp < track[k + 1].timestamp

\* C11: a callback whose fetch gives a sample leaves the counter of its loop
\* at 0, and the counter of a loop grows only in the step of a callback whose
\* fetch threw or came back empty
C11_CounterFollowsFetches ==
    [][\A t \in TaskIds :
          /\ (\E position \in Samples : tickFetch(t, position))
             => timers'[tasks[t].timer].consecutiveErrors = 0
          /\ ( /\ tasks[t].kind = "tick"
               /\ timers[tasks[t].timer].faFlightId = timers'[tasks[t].timer].faFlightId
               /\ timers'[tasks[t].timer].consecutiveErrors
                     > timers[tasks[t].timer].consecutiveErrors )
             => \E position \in {FeedThrows, FeedEmpty} : tickFetch(t, position)]_vars

\* C12: in every reachable state every stored track is sorted ascending by
\* timestamp and has no timestamp twice
C12_TracksSortedUnique == \A f \in Stored : sortedUnique(flights[f].flightTrack)

\* the track a start-time merge has to work on
persisted(t) ==
    IF tasks[t].faFlightId \in Stored THEN flights[tasks[t].faFlightId].flightTrack ELSE <<>>

\* C13: whatever is stored (A) and whatever is fetched (B), the track the
\* start-time merge produces is sorted ascending by timestamp and has no
\* timestamp twice
C13_MergeSortedUnique ==
    [][\A t \in TaskIds, B \in MergeSeqs :
          startPollingFind(t, TRUE, B)
          => sortedUnique(mergeTrack(persisted(t), B))]_vars

\* C14: merging the same fetched positions into the merged track again
\* changes nothing: merge(merge(A, B), B) = merge(A, B)
C14_MergeIdempotent ==
    [][\A t \in TaskIds, B \in MergeSeqs :
          startPollingFind(t, TRUE, B)
          => mergeTrack(mergeTrack(persisted(t), B), B) = mergeTrack(persisted(t), B)]_vars

\* no timestamp of the track occurs twice
uniqueTimestamps(track) ==
    \A i, j \in 1..Len(track) : track[i].timestamp = track[j].timestamp => i = j

eligibleConn(c) ==
    /\ registered(c)
    /\ eligible(sockets, clientConnections[entryOf(clientConnections, c)])

\* C16: a connection that closes before its setup completes is never counted:
\* it never enters the registry, the open and the close of a connection that
\* is not registered send nothing and leave the registry alone, as does its
\* stability callback when the transport is no longer open, and the count
\* carried by client_added / client_removed is the size of the registry,
\* which holds only connections whose setup completed
C16_UncountedBeforeSetup ==
    [][\A c \in Conns :
        /\ (sockets[c].readyState = "closed" /\ ~registered(c))
              => entryOf(clientConnections', c) = 0
        /\ (wsOpen(c) \/ (~registered(c) /\ \E f \in SUBSET Conns : wsClose(c, f)))
              => (wsSent' = {} /\ clientConnections' = clientConnections)
        /\ (sockets[c].readyState # "open"
            /\ sockets[c].stabilityTimer /\ ~sockets'[c].stabilityTimer)
              => (wsSent' = {} /\ clientConnections' = clientConnections)
        /\ \A m \in wsSent' :
              /\ m.event = "client_added" => m.data = Len(clientConnections) + 1
              /\ m.event = "client_removed" => m.data = Len(clientConnections) - 1
        /\ \A k \in 1..Len(clientConnections') : clientConnections'[k].setupComplete
      ]_vars

\* a connection closed before its stability callback ran and its close was
\* handled, while another connection is counted
C16_Witness ==
    \E c, d \in Conns :
        /\ sockets[c].readyState = "closed" /\ ~sockets[c].closeEvent
        /\ sockets[c].stabilityTimer /\ ~registered(c)
        /\ d # c /\ registered(d)

\* C17: every opened connection whose setup is pending eventually completes
\* setup (it is registered and its snapshot is requested) or is closed; when
\* the setup timer fires on a connection whose setup is incomplete the server
\* closes it, and a closed connection that is not registered never becomes so
C17_SetupCompletesOrCloses ==
    /\ \A c \in Conns :
          (sockets[c].readyState = "open" /\ sockets[c].stabilityTimer)
             ~> (sockets[c].snapshot \/ sockets[c].readyState # "open")
    /\ [][\A c \in Conns :
            /\ (wsSetupTimeout(c) /\ ~registered(c))
                  => (sockets'[c].readyState # "open"
                      /\ entryOf(clientConnections', c) = 0
                      /\ wsSent' = {})
            /\ (sockets[c].readyState # "open" /\ ~registered(c)
                /\ sockets'[c].readyState # "open")
                  => entryOf(clientConnections', c) = 0
         ]_vars

\* the setup timer has fired before the stability callback: the connection is
\* closed and has no entry
C17_Witness ==
    \E c \in Conns :
        /\ sockets[c].readyState = "closed" /\ ~sockets[c].setupTimeout
        /\ sockets[c].stabilityTimer /\ sockets[c].closeEvent
        /\ ~registered(c)

\* C18: the initial_state snapshot goes to the new connection only, and it is
\* sent before the client_added broadcast made for that connection
C18_SnapshotBeforeClientAdded ==
    [][\A c \in Conns :
        /\ (\E ok \in BOOLEAN : wsInitialState(c, ok))
              => \A m \in wsSent' : m.to = c
        /\ (sockets[c].stabilityTimer /\ sockets[c].readyState = "open"
            /\ \E f \in SUBSET Conns : wsStabilized(c, f))
              => sockets'[c].initialState
      ]_vars

\* C19: a broadcast is delivered only to connections that are registered,
\* connected, setup-complete and whose transport is open
C19_BroadcastOnlyToEligible ==
    [][\A m \in wsSent' :
          m.event # "initial_state" =>
             /\ sockets[m.to].readyState = "open"
             /\ \E k \in 1..Len(clientConnections') :
                   /\ clientConnections'[k].ws = m.to
                   /\ clientConnections'[k].connected
                   /\ clientConnections'[k].setupComplete
      ]_vars

\* a broadcast has reached a subscriber while another connection, set up
\* earlier, had a closed transport and its close was not handled yet
C19_Witness ==
    \E c, d \in Conns :
        /\ sockets[c].readyState = "closed" /\ sockets[c].closeEvent
        /\ sockets[c].initialState
        /\ \E m \in wsSent : m.to = d /\ m.event \in TrackingEvents
        /\ \A m \in wsSent : m.to # c

\* C20: when the send to some subscribers fails during a broadcast, every
\* other eligible subscriber receives the message, the failing ones have no
\* entry when the broadcast returns, and the healthy ones keep theirs
C20_FailureIsolated ==
    [][\A event \in TrackingEvents, failing \in SUBSET Conns :
          trackingBroadcast(event, failing) =>
             LET elig == {c \in Conns : eligibleConn(c)}
             IN  /\ wsSent' = {Message(c, event, 0) : c \in elig \ failing}
                 /\ \A c \in elig \cap failing : entryOf(clientConnections', c) = 0
                 /\ \A c \in elig \ failing :
                       /\ entryOf(clientConnections', c) # 0
                       /\ clientConnections'[entryOf(clientConnections', c)].connected
      ]_vars

\* a broadcast has reached a subscriber while a connection whose transport is
\* open, and which had received its snapshot, has lost its entry
C20_Witness ==
    \E c, d \in Conns :
        /\ sockets[c].readyState = "open" /\ sockets[c].initialState
        /\ ~registered(c)
        /\ d # c /\ registered(d)
        /\ \E m \in wsSent : m.to = d /\ m.event \in TrackingEvents


\* the recovery is in progress in task t
recovering(t) == tasks[t].kind = "restore"

\* C21: with several journeys flagged at startup, the recovery selects one whose
\* last sample is the most recent (no sample ranks last), unflags the others
\* it found, arms a timer for the selected one only, and when it has finished
\* at most one journey is flagged
C21_RecoveryResolvesConflict ==
    [][\A t \in TaskIds :
        /\ (restoreFind(t, TRUE) /\ Cardinality(TrackedFlights) > 1)
              => \E u \in TaskIds :
                    /\ tasks'[u].kind = "restore"
                    /\ tasks'[u].faFlightId \in TrackedFlights
                    /\ \A g \in TrackedFlights :
                          lastPosition(g) <= lastPosition(tasks'[u].faFlightId)
        /\ restoreReset(t, TRUE)
              => \A g \in tasks[t].trackedFlights \ {tasks[t].faFlightId} :
                    ~flights'[g].is_tracking
        /\ (recovering(t) /\ tasks[t].pc = "sp_update"
            /\ \E st \in FeedStatuses : startPollingUpdate(t, TRUE, st, TRUE))
              => \A i \in TimerIds :
                    timers'[i].armed => timers'[i].faFlightId = tasks[t].faFlightId
        /\ (recovering(t) /\ \A u \in TaskIds : tasks'[u].kind # "restore")
              => Cardinality({f \in Stored : flights'[f].is_tracking}) <= 1
      ]_vars

C23_StatusChangesBroadcast ==
    [][\A t \in TaskIds :
        /\ ( /\ tasks[t].kind = "tick" /\ tasks[t].actual_off
             /\ tasks[t].pc \in {"t_exists", "t_push"}
             /\ flights[tasks[t].faFlightId].standardized_status = "taxiing"
             /\ tickExists(t, TRUE) \/ tickPush(t, TRUE)
             /\ \A u \in TaskIds : tasks'[u].pc = "idle" )
           => /\ flights'[tasks[t].faFlightId].standardized_status = "active"
              /\ sent'.event = "flight_status_update"
        /\ ( /\ \E feedOk \in BOOLEAN, apiStatus \in FeedStatuses :
                   stopPollingUpdate(t, TRUE, feedOk, apiStatus)
             /\ flights[tasks[t].faFlightId].standardized_status # "completed"
             /\ flights'[tasks[t].faFlightId].standardized_status = "completed" )
           => sent'.event = "flight_completed"
      ]_vars

\* the five values of standardized_status
CanonicalStatuses == {"scheduled", "taxiing", "active", "completed", "unknown"}

\* C24: standardizeFlightStatus returns one of the five canonical values for
\* every input, and unknown for an absent one
C24_StandardizeTotal ==
    (calc.fn = "standardizeFlightStatus" /\ calc.done)
       => /\ calc.out \in CanonicalStatuses
          /\ calc.status = <<>> => calc.out = "unknown"

\* C25: calculateProgressFromPositions returns a number from 0 to 100 (in
\* tenths: 0 to 1000) for every input, and 0 for a track of fewer than 2 samples
C25_ProgressInRange ==
    (calc.fn = "calculateProgressFromPositions" /\ calc.done)
       => /\ ~calc.nan
          /\ calc.num \in 0..1000
          /\ Len(calc.flightTrack) < 2 => calc.num = 0

\* C26: the two delay functions return the difference actual - scheduled in
\* seconds, rounded to the nearest second (so negative when early by more than
\* half a second, never negative when late), 0 when a timestamp is absent, and
\* 900 for scheduled 10:00:00 and actual 10:15:00 of the same day
C26_DelaysInSeconds ==
    (calc.fn \in {"calculateDepartureDelay", "calculateArrivalDelay"} /\ calc.done)
       => IF calc.actual = NoTime \/ calc.scheduled = NoTime
          THEN calc.num = 0
          ELSE LET actual ==
                       ((calc.actual.day * 24 + calc.actual.hour) * 3600
                          + calc.actual.minute * 60 + calc.actual.second) * 1000
                          + calc.actual.ms
                   scheduled ==
                       ((calc.scheduled.day * 24 + calc.scheduled.hour) * 3600
                          + calc.scheduled.minute * 60 + calc.scheduled.second) * 1000
                          + calc.scheduled.ms
                   diff == actual - scheduled
               IN  /\ 1000 * calc.num - diff \in -500..500
                   /\ diff < -500 => calc.num < 0
                   /\ diff >= 0 => calc.num >= 0
                   /\ ( /\ calc.actual.day = calc.scheduled.day
                        /\ calc.actual.hour = 10 /\ calc.scheduled.hour = 10
                        /\ calc.actual.minute = 15 /\ calc.scheduled.minute = 0
                        /\ calc.actual.second = 0 /\ calc.scheduled.second = 0
                        /\ calc.actual.ms = 0 /\ calc.scheduled.ms = 0 )
                      => calc.num = 900

\* the departure delay of the scenario has been computed, and an early
\* arrival gives a negative delay
C26_Witness ==
    /\ calc.done
    /\ \/ /\ calc.fn = "calculateDepartureDelay"
          /\ calc.actual = [day |-> 1, hour |-> 10, minute |-> 15, second |-> 0, ms |-> 0]
          /\ calc.scheduled = [day |-> 1, hour |-> 10, minute |-> 0, second |-> 0, ms |-> 0]
          /\ calc.num = 900
       \/ /\ calc.fn = "calculateArrivalDelay"
          /\ calc.num < 0

\* the callbacks and requests in flight
running(tk) == {u \in DOMAIN tk : tk[u].pc # "idle"}

\* C27: a callback that finds its journey not flagged clears the timer handle
\* and ends there: it does not go on to the final fetch of the stop path, and
\* it writes nothing and broadcasts nothing
C27_UntrackedTickExits ==
    [][\A t \in TaskIds :
        /\ ( /\ tickCheck(t, TRUE)
             /\ ~( /\ tasks[t].faFlightId \in Stored
                   /\ flights[tasks[t].faFlightId].is_tracking ) )
           => /\ pollingInterval' = 0
              /\ flights' = flights
              /\ sent' = NoEvent
        /\ ( /\ tasks[t].caller = "not_tracked"
             /\ \E dbOk \in BOOLEAN : stopPollingFind(t, dbOk) )
           => \A u \in TaskIds :
                 ~(tasks'[u].pc = "stop_update" /\ tasks'[u].caller = "not_tracked")
        /\ ( /\ tasks[t].caller = "not_tracked"
             /\ \E dbOk \in BOOLEAN, feedOk \in BOOLEAN, apiStatus \in FeedStatuses :
                   stopPollingUpdate(t, dbOk, feedOk, apiStatus) )
           => /\ flights' = flights
              /\ sent' = NoEvent
      ]_vars

\* what the step of a callback that got a landing report has to do: enter the
\* stop path for its journey with the timer handle cleared, append no
\* sample, broadcast nothing and leave the counter of its loop as it is
cleanStop(t) ==
    /\ \E u \in TaskIds :
          /\ tasks'[u].pc = "stop_find" /\ tasks'[u].caller = "landed"
          /\ tasks'[u].faFlightId = tasks[t].faFlightId
          /\ tasks'[u].timer = tasks[t].timer
    /\ pollingInterval' = 0
    /\ flights' = flights
    /\ sent' = NoEvent
    /\ timers'[tasks[t].timer].consecutiveErrors = timers[tasks[t].timer].consecutiveErrors

\* the write of a stop path entered on a landing report leaves the track as
\* it is and broadcasts flight_completed, not position_update
cleanStopWrite(t) ==
    ( /\ tasks[t].caller = "landed"
      /\ \E feedOk \in BOOLEAN, apiStatus \in FeedStatuses :
            stopPollingUpdate(t, TRUE, feedOk, apiStatus) )
    => /\ flights'[tasks[t].faFlightId].flightTrack
             = flights[tasks[t].faFlightId].flightTrack
       /\ sent'.event = "flight_completed"
       /\ timers'[tasks[t].timer].consecutiveErrors
             <= timers[tasks[t].timer].consecutiveErrors

C29_DuplicateSkipped ==
    [][\A t \in TaskIds :
        ( /\ tickExists(t, TRUE)
          /\ tasks[t].faFlightId \in Stored
          /\ \E k \in 1..Len(flights[tasks[t].faFlightId].flightTrack) :
                flights[tasks[t].faFlightId].flightTrack[k].timestamp
                   = tasks[t].currentPosition.timestamp )
        => /\ flights' = flights
           /\ sent' = NoEvent
           /\ pollingInterval' = pollingInterval
           /\ Cardinality(running(tasks')) = Cardinality(running(tasks)) - 1
           /\ \A u \in TaskIds : tasks'[u].pc = "t_push" => \E v \in TaskIds : tasks[v] = tasks'[u]
           /\ timers[tasks[t].timer].armed
                 => /\ timers'[tasks[t].timer].armed
                    /\ timers'[tasks[t].timer].consecutiveErrors
                          = timers[tasks[t].timer].consecutiveErrors
      ]_vars

\* a callback of an armed timer has been given a sample whose timestamp is in
\* the stored track, and is about to look it up
C29_Witness ==
    \E t \in TaskIds, f \in Stored :
        /\ tasks[t].kind = "tick" /\ tasks[t].pc = "t_exists" /\ tasks[t].faFlightId = f
        /\ \E k \in 1..Len(flights[f].flightTrack) :
              flights[f].flightTrack[k].timestamp = tasks[t].currentPosition.timestamp
        /\ timers[tasks[t].timer].armed
        /\ pollingInterval = tasks[t].timer

\* C30: a store operation that fails in a callback leaves the loop as it is:
\* the timer handle and the timer keep their state, the counter keeps its
\* value, and the callback does not enter the stop path
C30_StoreFailureLeavesLoop ==
    [][\A t \in TaskIds :
        ( /\ tasks[t].kind = "tick"
          /\ timers[tasks[t].timer].armed
          /\ tickCheck(t, FALSE) \/ tickExists(t, FALSE) \/ tickPush(t, FALSE) )
        => /\ pollingInterval' = pollingInterval
           /\ timers'[tasks[t].timer] = timers[tasks[t].timer]
           /\ \A u \in TaskIds : tasks'[u].pc = "stop_find" => \E v \in TaskIds : tasks[v] = tasks'[u]
           /\ flights' = flights
           /\ sent' = NoEvent
      ]_vars

\* C31: a stop request (stopPolling with the shutdown fast path) cancels the
\* timer the handle holds and nothing else: the store is not written, no
\* work is started, nothing is broadcast, and the response is the success
\* response whatever the id
C31_FastPathStopOnlyCancels ==
    [][\A f \in FlightIds :
          handleStopTracking(f)
          => /\ flights' = flights
             /\ tasks' = tasks
             /\ sent' = NoEvent
             /\ completedSinceStart' = completedSinceStart
             /\ pollingInterval' = 0
             /\ {i \in TimerIds : timers'[i].armed} = ArmedTimers \ {pollingInterval}
             /\ resp' = Stopped]_vars

\* a stop request has been answered while a journey is tracked: its timer is
\* cancelled, its flag is still set and nothing was broadcast
C31_Witness ==
    /\ resp = Stopped
    /\ sent = NoEvent
    /\ pollingInterval = 0
    /\ \E f \in Stored : flights[f].is_tracking /\ f \notin completedSinceStart
    /\ \E i \in TimerIds : ~timers[i].armed /\ timers[i].faFlightId \in Stored

\* C32: no step removes a record whose is_tracking is true, and a delete
\* request for a tracked journey is answered with 400 and leaves the store
\* as it is
C32_TrackedNeverDeleted ==
    [][/\ \A f \in Stored : f \notin DOMAIN flights' => ~flights[f].is_tracking
       /\ \A id \in Stored :
             (flights[id].is_tracking /\ deleteFlight(id, TRUE))
             => /\ resp' = CannotDelete
                /\ flights' = flights
                /\ tasks' = tasks
      ]_vars

\* C33: once flight_completed has been broadcast for a journey and while it
\* is not flagged and not being started again, no callback appends a sample
\* to its track or broadcasts position_update for it
C33_NothingAfterCompleted ==
    [][\A t \in TaskIds :
          ( /\ tasks[t].kind = "tick"
            /\ tasks[t].faFlightId \in completedSinceStart
            /\ ~isTracking(tasks[t].faFlightId)
            /\ \A u \in TaskIds : tasks[u].kind \notin {"start", "restore"}
            /\ \E dbOk \in BOOLEAN : tickExists(t, dbOk) \/ tickPush(t, dbOk) )
          => /\ flights' = flights
             /\ sent'.event # "position_update"
      ]_vars

\* a timer is armed for faFlightId
polled(faFlightId) == \E i \in TimerIds : timers[i].armed /\ timers[i].faFlightId = faFlightId

\* C34: in every state in which no request, callback or recovery is in
\* progress, every journey with is_tracking = true has an armed timer
C34_TrackedIsPolled ==
    (\A t \in TaskIds : tasks[t].pc = "idle")
       => \A f \in Stored : flights[f].is_tracking => polled(f)

\* C35: a callback of a timer armed for one journey that enters the stop path
\* (its journey is not flagged, the landing is reported, or the counter
\* reaches the threshold) leaves armed every timer armed for another journey
C35_TickSparesOtherTimers ==
    [][\A t \in TaskIds :
          ( /\ tasks[t].kind = "tick"
            /\ \/ \E dbOk \in BOOLEAN : tickCheck(t, dbOk)
               \/ \E position \in AnyPosition : tickFetch(t, position)
            /\ \E u \in TaskIds : tasks'[u].pc = "stop_find" /\ tasks'[u].timer = tasks[t].timer )
          => \A i \in TimerIds :
                (timers[i].armed /\ timers[i].faFlightId # tasks[t].faFlightId)
                => timers'[i].armed
      ]_vars

\* C36: when a stop request for a journey is answered and no start or
\* recovery is in progress, no timer armed for that journey is left
C36_StopLeavesNoTimer ==
    [][\A f \in FlightIds :
          ( /\ handleStopTracking(f)
            /\ \A t \in TaskIds : tasks[t].kind \notin {"start", "restore"} )
          => \A i \in TimerIds : timers'[i].faFlightId = f => ~timers'[i].armed
      ]_vars

\* C37: flight_completed is not broadcast for a journey for which it has been
\* broadcast since its last start_flight
C37_CompletedOncePerStart ==
    [][sent'.event = "flight_completed" => sent'.faFlightId \notin completedSinceStart]_vars

\* C38: a start request that has passed its checks and is answered with the
\* failure response leaves its journey not flagged and no timer armed for it
C38_FailedStartLeavesNothing ==
    [][\A t \in TaskIds :
          ( /\ tasks[t].kind = "start"
            /\ resp' = FailedToStart
            /\ \/ \E feedOk \in BOOLEAN : startFetch(t, feedOk)
               \/ \E dbOk \in BOOLEAN, positions \in PositionSeqs :
                     startPollingFind(t, dbOk, positions)
               \/ \E dbOk \in BOOLEAN, status \in FeedStatuses, hasLast \in BOOLEAN :
                     startPollingUpdate(t, dbOk, status, hasLast) )
          => /\ tasks[t].faFlightId \in DOMAIN flights'
                => ~flights'[tasks[t].faFlightId].is_tracking
             /\ \A i \in TimerIds :
                   timers'[i].faFlightId = tasks[t].faFlightId => ~timers'[i].armed
      ]_vars

\* no handler of a subscriber connection has still to run: no close event,
\* no setup or stability timer and no getInitialState() is pending
quiescent ==
    \A c \in Conns :
        /\ ~sockets[c].closeEvent /\ ~sockets[c].setupTimeout
        /\ ~sockets[c].stabilityTimer /\ ~sockets[c].snapshot

\* C39: whenever no subscriber operation is in progress, the count of the
\* last client_added or client_removed broadcast is the number of
\* connections in the registry
C39_CountMatchesRegistry == quiescent => broadcastCount = Len(clientConnections)


\* C40, first half: the shutdown cleanup clears the polling timer and the
\* timer of the stale sweep and empties the registry; it writes nothing to
\* the store and broadcasts nothing
C40_CleanupKeepsStore ==
    [][cleanupServerResources =>
          /\ pollingInterval' = 0
          /\ (pollingInterval # 0 => ~timers'[pollingInterval].armed)
          /\ ~cleanupInterval'
          /\ clientConnections' = <<>>
          /\ flights' = flights
          /\ sent' = NoEvent /\ wsSent' = {}]_vars

\* C40, second half: when the recovery of a process start ends, a journey
\* that was flagged has an armed timer, or is stored as completed and not
\* tracked
C40_RecoveryRearms ==
    [][(/\ \E t \in TaskIds : tasks[t].kind = "restore"
        /\ \A t \in TaskIds : tasks'[t].kind # "restore")
       => \A f \in Stored :
             flights[f].is_tracking
             => \/ polled(f)'
                \/ /\ ~flights'[f].is_tracking
                   /\ flights'[f].standardized_status = "completed"]_vars

\* C40: the shutdown cleanup clears the polling timer and the sweep timer and
\* empties the registry without a store write, so that a journey tracked at
\* shutdown is still flagged, and the recovery of the next process start
\* arms a timer for it unless the feed reports it completed
C40_ShutdownThenRecovery == C40_CleanupKeepsStore /\ C40_RecoveryRearms
====
